---- MODULE Spec2Model ----
(***************************************************************************)
(* KiwiLax / KiwiTex.py: the background conversion task LatexConverter     *)
(* (run, check_miktex, install_miktex, convert_to_pdf,                     *)
(* clean_generated_files) over a small file system.                        *)
(*                                                                         *)
(* File names are sequences of one-character strings so that Path.stem,    *)
(* Path.suffix, str.lower and the glob "{stem}.*" are computed as pathlib  *)
(* computes them.  A path is <<directory, name>>.                          *)
(***************************************************************************)
EXTENDS Integers, Sequences, FiniteSets, TLC

VARIABLES
    pc,          \* position of the task inside run() / convert_to_pdf()
    events,      \* signals emitted by the current run, in emission order
    files,       \* regular files that exist, as <<directory, name>>
    dirs,        \* directories that exist
    miktex,      \* pdflatex.exe exists at the fixed installation path
    tex_file,    \* LatexConverter.tex_file
    output_dir,  \* LatexConverter.output_dir
    exc,         \* exception propagating out of the try body of run()
    exitCode,    \* return code of the launcher subprocess (discarded by the code)
    compiled,    \* the launcher subprocess ran and returned in this run
    found,       \* what check_miktex() returned in this run
    written,     \* the files the compiler wrote in this run
    runs,        \* number of runs started so far
    raised,      \* the condition raised in this run, "none" when there is none
    calls,       \* how often this run started the installer, wrote the
                 \* launcher and had the compiler run
    installResult, \* returncode and stderr of the installer subprocess
    start,       \* files and directories as they were when the run began
    leftover,    \* intermediate files the previous run's compiler wrote
                 \* that were still there when this run began
    undeleted,   \* files whose unlink failed in this run's cleanup
    queue,       \* signals posted to the foreground thread, not yet delivered
    handled,     \* signals whose slot the foreground thread has started
    ui,          \* the KiwiTex window: its fields, its widgets and the modal
                 \* dialogs it has open, innermost last
    earlier      \* number of LatexConverter threads replaced by a newer one
                 \* before their run() returned

vars == <<pc, events, files, dirs, miktex, tex_file, output_dir, exc,
          exitCode, compiled, found, written, runs, raised, calls,
          installResult, start, leftover, undeleted, queue, handled,
          ui, earlier>>

-----------------------------------------------------------------------------
(* Bounds *)

MaxRuns == 2

-----------------------------------------------------------------------------
(* File names *)

TexName == <<"a", ".", "t", "e", "x">>
AuxName == <<"a", ".", "a", "u", "x">>
LogName == <<"a", ".", "l", "o", "g">>
PdfExt == <<".", "p", "d", "f">>
TexExt == <<".", "t", "e", "x">>
OtherAux == <<"b", ".", "a", "u", "x">>
UpperPdf == <<"a", ".", "b", ".", "P", "D", "F">>
BatName == <<"c","o","m","p","i","l","e","_","t","e","x",".","b","a","t">>

SrcDir == "src"
OutDir == "out"
Dirs == {SrcDir, OutDir}

LowerChar(c) ==
    CASE c = "L" -> "l"
      [] c = "O" -> "o"
      [] c = "G" -> "g"
      [] c = "P" -> "p"
      [] c = "D" -> "d"
      [] c = "F" -> "f"
      [] c = "T" -> "t"
      [] c = "E" -> "e"
      [] c = "X" -> "x"
      [] c = "A" -> "a"
      [] c = "B" -> "b"
      [] OTHER -> c

Lower(s) == [i \in 1..Len(s) |-> LowerChar(s[i])]

\* index of the last "." of name, 0 when there is none (str.rfind, 1-based)
LastDot(name) ==
    LET ds == {i \in 1..Len(name) : name[i] = "."}
    IN  IF ds = {} THEN 0 ELSE CHOOSE i \in ds : \A j \in ds : j <= i

\* PurePath.suffix: from the last dot, unless the dot is first or last
Suffix(name) ==
    LET i == LastDot(name)
    IN  IF 1 < i /\ i < Len(name) THEN SubSeq(name, i, Len(name)) ELSE <<>>

\* PurePath.stem: the name without its suffix
Stem(name) ==
    LET i == LastDot(name)
    IN  IF 1 < i /\ i < Len(name) THEN SubSeq(name, 1, i - 1) ELSE name

\* directory.glob(f"{base_name}.*"): a name that starts with base_name and a
\* dot (Windows flavour: compared case-insensitively)
GlobMatch(base_name, name) ==
    /\ Len(name) >= Len(base_name) + 1
    /\ Lower(SubSeq(name, 1, Len(base_name) + 1)) = Lower(base_name \o <<".">>)

Parent(path) == path[1]
Name(path) == path[2]

\* output_dir / f"{tex_file.stem}.pdf"
OutputFile(od, tex) == <<od, Stem(Name(tex)) \o PdfExt>>

\* output_dir / "compile_tex.bat"
BatFile(od) == <<od, BatName>>

-----------------------------------------------------------------------------
(* Signals *)

NoRef == <<>>

ProgressEv(n) == [type |-> "progress", n |-> n, text |-> "", ref |-> NoRef]
MessageEv(t, r) == [type |-> "message", n |-> 0, text |-> t, ref |-> r]
ErrorEv(t, r) == [type |-> "error", n |-> 0, text |-> t, ref |-> r]
FinishedEv == [type |-> "finished", n |-> 0, text |-> "", ref |-> NoRef]

\* signal.emit(): observed in emission order and posted to the receiver's
\* thread (the connections of start_conversion are queued: the receiver
\* lives in the foreground thread)
Emit(evs) ==
    /\ events' = events \o evs
    /\ queue' = queue \o evs

-----------------------------------------------------------------------------
(* The widgets and fields of the KiwiTex window *)

\* self.tex_file = None, self.output_dir = None
NoFile == <<"none", <<>>>>
NoDir == "none"

\* status_label.setText(f"{icon} {text}")
Status(icon, text) == [icon |-> icon, text |-> text]

\* a modal dialog: QFileDialog, QMessageBox.warning / critical / information
Dialog(kind, text) == [kind |-> kind, text |-> text]

\* KiwiTex.__init__ and init_ui: nothing selected, the convert button off
Window ==
    [tex_file |-> NoFile, output_dir |-> NoDir,
     select_file_btn |-> TRUE, convert_btn |-> FALSE,
     progress_bar |-> 0, status_label |-> Status("", "Listo para comenzar la conversion"),
     modal |-> <<>>]

\* the window as start_conversion leaves it
Converting(tex, od) ==
    [Window EXCEPT !.tex_file = tex, !.output_dir = od,
                   !.select_file_btn = FALSE, !.convert_btn = FALSE,
                   !.progress_bar = 0,
                   !.status_label = Status("busy", "Iniciando conversion")]

-----------------------------------------------------------------------------
(* Initial state: a LatexConverter has been constructed for tex_file and    *)
(* output_dir; the file system is whatever the user left there.            *)

\* nothing started yet in this run
NoCalls == [installer |-> 0, launcher |-> 0, compiler |-> 0]

\* the installer subprocess has not returned in this run
NotRun == [rc |-> -1, stderr |-> ""]

InitialFiles ==
    {<<SrcDir, TexName>>, <<SrcDir, AuxName>>, <<OutDir, AuxName>>,
     <<SrcDir, Stem(TexName) \o PdfExt>>, <<OutDir, Stem(TexName) \o PdfExt>>}

Init ==
    /\ pc = "idle"
    /\ events = <<>>
    /\ tex_file = <<SrcDir, TexName>>
    /\ output_dir \in Dirs
    /\ dirs \in {{SrcDir}, Dirs}
    /\ \E fs \in SUBSET InitialFiles :
          /\ \A f \in fs : Parent(f) \in dirs
          /\ files = fs \cup {<<SrcDir, OtherAux>>, <<SrcDir, UpperPdf>>}
    /\ miktex \in BOOLEAN
    /\ exc = "none"
    /\ exitCode = 0
    /\ compiled = FALSE
    /\ found = "unknown"
    /\ written = {}
    /\ runs = 1
    /\ raised = "none"
    /\ calls = NoCalls
    /\ installResult = NotRun
    /\ start = [files |-> files, dirs |-> dirs]
    /\ leftover = {}
    /\ undeleted = {}
    /\ queue = <<>>
    /\ handled = <<>>
    /\ ui = Converting(tex_file, output_dir)
    /\ earlier = 0

-----------------------------------------------------------------------------
(* LatexConverter.run *)

\* run(): first two emits
RunStart ==
    /\ pc = "idle"
    /\ Emit(<<MessageEv("Verificando instalacion de MiKTeX", NoRef), ProgressEv(10)>>)
    /\ pc' = "check_miktex"
    /\ UNCHANGED <<files, dirs, miktex, tex_file, output_dir, exc, exitCode,
                   compiled, found, written, runs,
                   raised, calls, installResult, start, leftover, undeleted,
                   handled,
                   ui, earlier>>

\* check_miktex(): existence of the fixed compiler path
check_miktex == miktex

\* as RunCheckMiktex, with the condition inverted
RunCheckMiktex_Inverted ==
    /\ pc = "check_miktex"
    /\ found' = IF check_miktex THEN "present" ELSE "absent"
    /\ IF check_miktex
          THEN /\ Emit(<<MessageEv("Instalando MiKTeX", NoRef), ProgressEv(20)>>)
               /\ pc' = "install_miktex"
          ELSE /\ pc' = "convert_begin"
               /\ UNCHANGED <<events, queue>>
    /\ UNCHANGED <<files, dirs, miktex, tex_file, output_dir, exc, exitCode,
                   compiled, written, runs,
                   raised, calls, installResult, start, leftover, undeleted,
                   handled,
                   ui, earlier>>

\* run(): the conditional on check_miktex()
RunCheckMiktex ==
    /\ pc = "check_miktex"
    /\ found' = IF check_miktex THEN "present" ELSE "absent"
    /\ IF ~check_miktex
          THEN /\ Emit(<<MessageEv("Instalando MiKTeX", NoRef), ProgressEv(20)>>)
               /\ pc' = "install_miktex"
          ELSE /\ pc' = "convert_begin"
               /\ UNCHANGED <<events, queue>>
    /\ UNCHANGED <<files, dirs, miktex, tex_file, output_dir, exc, exitCode,
                   compiled, written, runs,
                   raised, calls, installResult, start, leftover, undeleted,
                   handled,
                   ui, earlier>>

\* install_miktex(): the installer is missing, cannot be started, exits
\* non-zero, or exits zero; every failure is re-raised to run()
InstallOutcomes ==
    {"installer_not_found", "installer_oserror", "installer_failed", "ok"}

\* what the installer can print on its standard error
Stderrs == {"disk full", "access denied"}

\* as install_miktex, with the return code of the installer not inspected
install_miktex_IgnoresReturnCode ==
    /\ pc = "install_miktex"
    /\ \/ \E outcome \in InstallOutcomes :
           /\ calls' = IF outcome = "installer_not_found"
                          THEN calls
                          ELSE [calls EXCEPT !.installer = @ + 1]
           /\ IF outcome \in {"ok", "installer_failed"}
                 THEN /\ \E present \in BOOLEAN : miktex' = present
                      /\ IF outcome = "ok"
                            THEN installResult' = [rc |-> 0, stderr |-> ""]
                            ELSE \E e \in Stderrs :
                                    installResult' = [rc |-> 1, stderr |-> e]
                      /\ Emit(<<ProgressEv(50)>>)
                      /\ pc' = "convert_begin"
                      /\ UNCHANGED <<exc, raised>>
                 ELSE /\ exc' = outcome
                      /\ raised' = outcome
                      /\ pc' = "except"
                      /\ UNCHANGED <<events, queue, miktex, installResult>>
       \/ /\ calls' = [calls EXCEPT !.installer = @ + 1]
          /\ pc' = "install_hung"
          /\ UNCHANGED <<events, queue, miktex, exc, raised, installResult>>
    /\ UNCHANGED <<files, dirs, tex_file, output_dir, exitCode, compiled,
                   found, written, runs, start, leftover, undeleted, handled,
                   ui, earlier>>

\* install_miktex(): subprocess.run has no timeout; "hung" is the installer
\* that never returns
install_miktex ==
    /\ pc = "install_miktex"
    /\ \/ \E outcome \in InstallOutcomes :
           /\ calls' = IF outcome = "installer_not_found"
                          THEN calls
                          ELSE [calls EXCEPT !.installer = @ + 1]
           /\ IF outcome = "ok"
                 THEN /\ \E present \in BOOLEAN : miktex' = present
                      /\ installResult' = [rc |-> 0, stderr |-> ""]
                      /\ Emit(<<ProgressEv(50)>>)
                      /\ pc' = "convert_begin"
                      /\ UNCHANGED <<exc, raised>>
                 ELSE /\ exc' = outcome
                      /\ raised' = outcome
                      /\ IF outcome = "installer_failed"
                            THEN \E e \in Stderrs :
                                    installResult' = [rc |-> 1, stderr |-> e]
                            ELSE UNCHANGED installResult
                      /\ pc' = "except"
                      /\ UNCHANGED <<events, queue, miktex>>
       \/ /\ calls' = [calls EXCEPT !.installer = @ + 1]
          /\ pc' = "install_hung"
          /\ UNCHANGED <<events, queue, miktex, exc, raised, installResult>>
    /\ UNCHANGED <<files, dirs, tex_file, output_dir, exitCode, compiled,
                   found, written, runs, start, leftover, undeleted, handled,
                   ui, earlier>>

\* as RunConvertBegin, with a progress value below the installer's 50
RunConvertBegin_LowProgress ==
    /\ pc = "convert_begin"
    /\ Emit(<<MessageEv("Convirtiendo a PDF", <<Name(tex_file)>>), ProgressEv(40)>>)
    /\ pc' = "convert_check_input"
    /\ UNCHANGED <<files, dirs, miktex, tex_file, output_dir, exc, exitCode,
                   compiled, found, written, runs,
                   raised, calls, installResult, start, leftover, undeleted,
                   handled,
                   ui, earlier>>

\* run(): emits before the call of convert_to_pdf()
RunConvertBegin ==
    /\ pc = "convert_begin"
    /\ Emit(<<MessageEv("Convirtiendo a PDF", <<Name(tex_file)>>), ProgressEv(60)>>)
    /\ pc' = "convert_check_input"
    /\ UNCHANGED <<files, dirs, miktex, tex_file, output_dir, exc, exitCode,
                   compiled, found, written, runs,
                   raised, calls, installResult, start, leftover, undeleted,
                   handled,
                   ui, earlier>>

\* as RunAfterConvert, with finished also emitted at the end of the try body
RunAfterConvert_EmitsFinished ==
    /\ pc = "after_convert"
    /\ Emit(<<ProgressEv(100), MessageEv("Proceso completado", NoRef), FinishedEv>>)
    /\ pc' = "finally"
    /\ UNCHANGED <<files, dirs, miktex, tex_file, output_dir, exc, exitCode,
                   compiled, found, written, runs,
                   raised, calls, installResult, start, leftover, undeleted,
                   handled,
                   ui, earlier>>

\* run(): after convert_to_pdf() returned (its result is not inspected)
RunAfterConvert ==
    /\ pc = "after_convert"
    /\ Emit(<<ProgressEv(100), MessageEv("Proceso completado", NoRef)>>)
    /\ pc' = "finally"
    /\ UNCHANGED <<files, dirs, miktex, tex_file, output_dir, exc, exitCode,
                   compiled, found, written, runs,
                   raised, calls, installResult, start, leftover, undeleted,
                   handled,
                   ui, earlier>>

\* str(e): the RuntimeError of a non-zero installer carries result.stderr
ExcArg(e) ==
    IF e = "installer_failed" THEN <<installResult.stderr>> ELSE NoRef

\* as RunExcept, with the exception only logged
RunExcept_Silent ==
    /\ pc = "except"
    /\ exc' = "none"
    /\ pc' = "finally"
    /\ UNCHANGED <<events, queue, files, dirs, miktex, tex_file, output_dir,
                   exitCode, compiled, found, written, runs,
                   raised, calls, installResult, start, leftover, undeleted,
                   handled,
                   ui, earlier>>

\* run(): except Exception as e
RunExcept ==
    /\ pc = "except"
    /\ Emit(<<ErrorEv(exc, ExcArg(exc))>>)
    /\ exc' = "none"
    /\ pc' = "finally"
    /\ UNCHANGED <<files, dirs, miktex, tex_file, output_dir, exitCode,
                   compiled, found, written, runs,
                   raised, calls, installResult, start, leftover, undeleted,
                   handled,
                   ui, earlier>>

\* as RunFinally, without the emit
RunFinally_NoEmit ==
    /\ pc = "finally"
    /\ pc' = "finished_emitted"
    /\ UNCHANGED <<events, queue, files, dirs, miktex, tex_file, output_dir,
                   exc, exitCode, compiled, found, written, runs,
                   raised, calls, installResult, start, leftover, undeleted,
                   handled,
                   ui, earlier>>

\* run(): finally
RunFinally ==
    /\ pc = "finally"
    /\ Emit(<<FinishedEv>>)
    /\ pc' = "finished_emitted"
    /\ UNCHANGED <<files, dirs, miktex, tex_file, output_dir, exc, exitCode,
                   compiled, found, written, runs,
                   raised, calls, installResult, start, leftover, undeleted,
                   handled,
                   ui, earlier>>

\* run(): the statement after the emit of the finally clause, and the return
\* that ends the thread
RunReturn ==
    /\ pc = "finished_emitted"
    /\ pc' = "done"
    /\ UNCHANGED <<events, queue, files, dirs, miktex, tex_file, output_dir,
                   exc, exitCode, compiled, found, written, runs,
                   raised, calls, installResult, start, leftover, undeleted,
                   handled,
                   ui, earlier>>

-----------------------------------------------------------------------------
(* LatexConverter.convert_to_pdf *)

\* as ConvertCheckInput, without the existence test
ConvertCheckInput_NoTest ==
    /\ pc = "convert_check_input"
    /\ pc' = "mkdir"
    /\ UNCHANGED <<events, queue, files, dirs, miktex, tex_file, output_dir, exc,
                   exitCode, compiled, found, written, runs,
                   raised, calls, installResult, start, leftover, undeleted,
                   handled,
                   ui, earlier>>

\* as ConvertCheckInput, with the output directory created before the test
ConvertCheckInput_AfterMkdir ==
    /\ pc = "convert_check_input"
    /\ dirs' = dirs \cup {output_dir}
    /\ IF tex_file \notin files
          THEN /\ Emit(<<ErrorEv("El archivo no existe", tex_file)>>)
               /\ pc' = "after_convert"
          ELSE /\ pc' = "mkdir"
               /\ UNCHANGED <<events, queue>>
    /\ UNCHANGED <<files, miktex, tex_file, output_dir, exc, exitCode,
                   compiled, found, written, runs,
                   raised, calls, installResult, start, leftover, undeleted,
                   handled,
                   ui, earlier>>

\* tex_file.exists()
ConvertCheckInput ==
    /\ pc = "convert_check_input"
    /\ IF tex_file \notin files
          THEN /\ Emit(<<ErrorEv("El archivo no existe", tex_file)>>)
               /\ pc' = "after_convert"
          ELSE /\ pc' = "mkdir"
               /\ UNCHANGED <<events, queue>>
    /\ UNCHANGED <<files, dirs, miktex, tex_file, output_dir, exc, exitCode,
                   compiled, found, written, runs,
                   raised, calls, installResult, start, leftover, undeleted,
                   handled,
                   ui, earlier>>

\* an exception inside convert_to_pdf(): its own handler emits and returns
ConvertException ==
    /\ Emit(<<ErrorEv("Error durante la conversion a PDF", NoRef)>>)
    /\ pc' = "after_convert"

\* output_dir.mkdir(parents=True, exist_ok=True), then the emits before the
\* launcher is written
ConvertMkdir ==
    /\ pc = "mkdir"
    /\ \/ /\ dirs' = dirs \cup {output_dir}
          /\ Emit(<<MessageEv("Ejecutando pdflatex", <<Name(tex_file)>>), ProgressEv(70)>>)
          /\ pc' = "write_bat"
          /\ UNCHANGED raised
       \/ /\ output_dir \notin dirs
          /\ ConvertException
          /\ raised' = "mkdir_failed"
          /\ UNCHANGED dirs
    /\ UNCHANGED <<files, miktex, tex_file, output_dir, exc, exitCode,
                   compiled, found, written, runs,
                   calls, installResult, start, leftover, undeleted,
                   handled,
                   ui, earlier>>

\* with open(bat_file, 'w') as f: f.write(...)
ConvertWriteBat ==
    /\ pc = "write_bat"
    /\ \/ /\ files' = files \cup {BatFile(output_dir)}
          /\ calls' = [calls EXCEPT !.launcher = @ + 1]
          /\ pc' = "run_bat"
          /\ UNCHANGED <<events, queue, raised>>
       \/ /\ ConvertException
          /\ raised' = "write_bat_failed"
          /\ UNCHANGED <<files, calls>>
    /\ UNCHANGED <<dirs, miktex, tex_file, output_dir, exc, exitCode,
                   compiled, found, written, runs,
                   installResult, start, leftover, undeleted,
                   handled,
                   ui, earlier>>

\* what one pdflatex pass can write into its working directory
CompilerOutputs(od, tex) ==
    {<<od, Stem(Name(tex)) \o Suffix(AuxName)>>,
     <<od, Stem(Name(tex)) \o Suffix(LogName)>>,
     OutputFile(od, tex)}

ExitCodes == {0, 1}

\* subprocess.run(str(bat_file), cwd=output_dir, check=False): the launcher
\* runs the compiler and returns, cannot be started, or never returns (there
\* is no timeout)
ConvertRunBat ==
    /\ pc = "run_bat"
    /\ \/ /\ \E w \in SUBSET CompilerOutputs(output_dir, tex_file) :
                /\ files' = files \cup w
                /\ written' = w
          /\ \E rc \in ExitCodes : exitCode' = rc
          /\ compiled' = TRUE
          /\ calls' = [calls EXCEPT !.compiler = @ + 1]
          /\ pc' = "clean"
          /\ UNCHANGED <<events, queue, raised>>
       \/ /\ ConvertException
          /\ raised' = "launch_failed"
          /\ UNCHANGED <<files, exitCode, compiled, written, calls>>
       \/ /\ calls' = [calls EXCEPT !.compiler = @ + 1]
          /\ pc' = "run_bat_hung"
          /\ UNCHANGED <<events, queue, raised, files, exitCode, compiled, written>>
    /\ UNCHANGED <<dirs, miktex, tex_file, output_dir, exc, found, runs,
                   installResult, start, leftover, undeleted, handled,
                   ui, earlier>>

\* as KeepExtensions, without the PDF extension
KeepExtensions_TexOnly == {TexExt}

\* keep_extensions
KeepExtensions == {TexExt, PdfExt}

\* as CleanTargets, in the output directory instead of the source's
CleanTargets_OutputDir(fs, tex) ==
    {f \in fs : /\ Parent(f) = output_dir
                /\ \/ /\ GlobMatch(Stem(Name(tex)), Name(f))
                      /\ Lower(Suffix(Name(f))) \notin KeepExtensions
                   \/ f = BatFile(output_dir)}

\* as CleanTargets, without the test of the extension
CleanTargets_AllMatches(fs, tex) ==
    {f \in fs : /\ Parent(f) = Parent(tex)
                /\ \/ GlobMatch(Stem(Name(tex)), Name(f))
                   \/ f = BatFile(Parent(tex))}

\* the files clean_generated_files(tex) tries to unlink
CleanTargets(fs, tex) ==
    {f \in fs : /\ Parent(f) = Parent(tex)
                /\ \/ /\ GlobMatch(Stem(Name(tex)), Name(f))
                      /\ Lower(Suffix(Name(f))) \notin KeepExtensions
                   \/ f = BatFile(Parent(tex))}

\* as ConvertClean, with a failed unlink propagating to convert_to_pdf's
\* handler
ConvertClean_Raises ==
    /\ pc = "clean"
    /\ \E failed \in SUBSET CleanTargets(files, tex_file) :
          /\ files' = (files \ CleanTargets(files, tex_file)) \cup failed
          /\ undeleted' = failed
          /\ IF failed = {}
                THEN /\ pc' = "check_pdf"
                     /\ UNCHANGED <<events, queue, raised>>
                ELSE /\ ConvertException
                     /\ raised' = "unlink_failed"
    /\ UNCHANGED <<dirs, miktex, tex_file, output_dir, exc,
                   exitCode, compiled, found, written, runs, calls,
                   installResult, start, leftover, handled,
                   ui, earlier>>

\* clean_generated_files(tex_file): every unlink may fail, silently
ConvertClean ==
    /\ pc = "clean"
    /\ \E failed \in SUBSET CleanTargets(files, tex_file) :
          /\ files' = (files \ CleanTargets(files, tex_file)) \cup failed
          /\ undeleted' = failed
    /\ pc' = "check_pdf"
    /\ UNCHANGED <<events, queue, dirs, miktex, tex_file, output_dir, exc,
                   exitCode, compiled, found, written, runs, raised, calls,
                   installResult, start, leftover, handled,
                   ui, earlier>>

\* as OutputFileExists, for a file the compiler wrote in this run
OutputFileExists_Fresh(fs, od, tex) ==
    OutputFile(od, tex) \in fs /\ OutputFile(od, tex) \in written

\* as OutputFileExists, also requiring a zero exit status of the launcher
OutputFileExists_AndExitZero(fs, od, tex) ==
    OutputFile(od, tex) \in fs /\ exitCode = 0

\* output_file.exists()
OutputFileExists(fs, od, tex) == OutputFile(od, tex) \in fs

\* as ConvertCheckPdf, with the missing output only logged
ConvertCheckPdf_Silent ==
    /\ pc = "check_pdf"
    /\ IF OutputFileExists(files, output_dir, tex_file)
          THEN Emit(<<MessageEv("PDF generado en", OutputFile(output_dir, tex_file)),
                      ProgressEv(100)>>)
          ELSE UNCHANGED <<events, queue>>
    /\ pc' = "after_convert"
    /\ UNCHANGED <<files, dirs, miktex, tex_file, output_dir, exc, exitCode,
                   compiled, found, written, runs,
                   raised, calls, installResult, start, leftover, undeleted,
                   handled,
                   ui, earlier>>

\* as ConvertCheckPdf, raising after the error was emitted
ConvertCheckPdf_Raises ==
    /\ pc = "check_pdf"
    /\ IF OutputFileExists(files, output_dir, tex_file)
          THEN /\ Emit(<<MessageEv("PDF generado en", OutputFile(output_dir, tex_file)),
                         ProgressEv(100)>>)
               /\ pc' = "after_convert"
               /\ UNCHANGED exc
          ELSE /\ Emit(<<ErrorEv("No se pudo generar el archivo PDF", NoRef)>>)
               /\ exc' = "No se pudo generar el archivo PDF"
               /\ pc' = "except"
    /\ UNCHANGED <<files, dirs, miktex, tex_file, output_dir, exitCode,
                   compiled, found, written, runs,
                   raised, calls, installResult, start, leftover, undeleted,
                   handled,
                   ui, earlier>>

\* convert_to_pdf(): the final check
ConvertCheckPdf ==
    /\ pc = "check_pdf"
    /\ IF OutputFileExists(files, output_dir, tex_file)
          THEN Emit(<<MessageEv("PDF generado en", OutputFile(output_dir, tex_file)),
                      ProgressEv(100)>>)
          ELSE Emit(<<ErrorEv("No se pudo generar el archivo PDF", NoRef)>>)
    /\ pc' = "after_convert"
    /\ UNCHANGED <<files, dirs, miktex, tex_file, output_dir, exc, exitCode,
                   compiled, found, written, runs,
                   raised, calls, installResult, start, leftover, undeleted,
                   handled,
                   ui, earlier>>

-----------------------------------------------------------------------------
(* A further run on the same request: a new LatexConverter is constructed   *)
(* for the same tex_file and output_dir over the file system as it is.      *)

NewRun ==
    /\ pc = "done"
    /\ runs < MaxRuns
    /\ runs' = runs + 1
    /\ pc' = "idle"
    /\ events' = <<>>
    /\ queue' = <<>>
    /\ handled' = <<>>
    /\ exc' = "none"
    /\ exitCode' = 0
    /\ compiled' = FALSE
    /\ found' = "unknown"
    /\ written' = {}
    /\ raised' = "none"
    /\ calls' = NoCalls
    /\ installResult' = NotRun
    /\ start' = [files |-> files, dirs |-> dirs]
    /\ leftover' = (written \ {OutputFile(output_dir, tex_file)}) \cap files
    /\ undeleted' = {}
    /\ UNCHANGED <<files, dirs, miktex, tex_file, output_dir, ui, earlier>>

Next ==
    \/ RunStart
    \/ RunCheckMiktex
    \/ install_miktex
    \/ RunConvertBegin
    \/ ConvertCheckInput
    \/ ConvertMkdir
    \/ ConvertWriteBat
    \/ ConvertRunBat
    \/ ConvertClean
    \/ ConvertCheckPdf
    \/ RunAfterConvert
    \/ RunExcept
    \/ RunFinally
    \/ RunReturn
    \/ NewRun

\* the steps of the background thread
TaskNext ==
    \/ RunStart
    \/ RunCheckMiktex
    \/ install_miktex
    \/ RunConvertBegin
    \/ ConvertCheckInput
    \/ ConvertMkdir
    \/ ConvertWriteBat
    \/ ConvertRunBat
    \/ ConvertClean
    \/ ConvertCheckPdf
    \/ RunAfterConvert
    \/ RunExcept
    \/ RunFinally
    \/ RunReturn

Spec == Init /\ [][Next]_vars

\* one run of the background thread, which is scheduled as long as it can
\* take a step; a subprocess that never returns leaves it without one
LiveSpec == Init /\ [][TaskNext]_vars /\ WF_vars(TaskNext)

-----------------------------------------------------------------------------
(* The foreground thread of KiwiTex: the slots connected in start_conversion *)
(* run from its event loop, one posted signal at a time.                    *)

\* as Dispatch, taking the signal posted last
Dispatch_Lifo ==
    /\ queue # <<>>
    /\ handled' = Append(handled, queue[Len(queue)])
    /\ queue' = SubSeq(queue, 1, Len(queue) - 1)
    /\ UNCHANGED <<pc, events, files, dirs, miktex, tex_file, output_dir, exc,
                   exitCode, compiled, found, written, runs, raised, calls,
                   installResult, start, leftover, undeleted,
                   ui, earlier>>

\* the event loop delivers the oldest posted signal to its slot
\* (update_progress, update_status, show_error, conversion_finished)
Dispatch ==
    /\ queue # <<>>
    /\ handled' = Append(handled, Head(queue))
    /\ queue' = Tail(queue)
    /\ UNCHANGED <<pc, events, files, dirs, miktex, tex_file, output_dir, exc,
                   exitCode, compiled, found, written, runs, raised, calls,
                   installResult, start, leftover, undeleted,
                   ui, earlier>>

\* select_file() sets output_dir to the directory of the selected file
ShellInit == Init /\ output_dir = Parent(tex_file)

\* start_conversion() for a further run, once the previous thread has
\* returned: the convert button is enabled again by conversion_finished
\* (start_conversion below also covers a click before that return)
ShellNewRun ==
    /\ handled # <<>>
    /\ handled[Len(handled)] = FinishedEv
    /\ NewRun

ShellNext ==
    \/ TaskNext
    \/ Dispatch
    \/ ShellNewRun

ShellSpec == ShellInit /\ [][ShellNext]_vars

-----------------------------------------------------------------------------
(* The KiwiTex window: the user's clicks, the slots and their effect on the *)
(* widgets. A modal dialog runs its own event loop: posted signals are      *)
(* still delivered while it is open, the buttons of the window are not.     *)

\* the variables of the task and of the file system
taskVars == <<pc, events, files, dirs, miktex, tex_file, output_dir, exc,
              exitCode, compiled, found, written, runs, raised, calls,
              installResult, start, leftover, undeleted>>

\* the window accepts clicks: no modal dialog is open
Clickable == ui.modal = <<>>

\* the dialog whose event loop is running
TopDialog == ui.modal[Len(ui.modal)]
Closed == SubSeq(ui.modal, 1, Len(ui.modal) - 1)

\* what the file dialog offers: the existing .tex files
Selectable == {f \in files : Lower(Suffix(Name(f))) = TexExt}

\* the application starts: the window is shown, no converter exists yet
UiInit ==
    /\ pc = "none"
    /\ events = <<>>
    /\ tex_file = NoFile
    /\ output_dir = NoDir
    /\ dirs = Dirs
    /\ files = {<<SrcDir, TexName>>, <<OutDir, TexName>>,
                <<SrcDir, OtherAux>>, <<SrcDir, UpperPdf>>}
    /\ miktex \in BOOLEAN
    /\ exc = "none"
    /\ exitCode = 0
    /\ compiled = FALSE
    /\ found = "unknown"
    /\ written = {}
    /\ runs = 0
    /\ raised = "none"
    /\ calls = NoCalls
    /\ installResult = NotRun
    /\ start = [files |-> files, dirs |-> dirs]
    /\ leftover = {}
    /\ undeleted = {}
    /\ queue = <<>>
    /\ handled = <<>>
    /\ ui = Window
    /\ earlier = 0

\* select_file(): the click opens the file dialog
select_file ==
    /\ Clickable
    /\ ui.select_file_btn
    /\ ui' = [ui EXCEPT !.modal = Append(@, Dialog("file", ""))]
    /\ UNCHANGED <<taskVars, queue, handled, earlier>>

\* as select_file_accepted, leaving the output directory as it was
select_file_accepted_KeepsDir ==
    /\ ui.modal # <<>>
    /\ TopDialog.kind = "file"
    /\ \E f \in Selectable :
          ui' = [ui EXCEPT !.modal = Closed,
                           !.tex_file = f,
                           !.status_label = Status("ok", "Archivo seleccionado"),
                           !.convert_btn = TRUE]
    /\ UNCHANGED <<taskVars, queue, handled, earlier>>

\* select_file(): file_dialog.exec() returned true
select_file_accepted ==
    /\ ui.modal # <<>>
    /\ TopDialog.kind = "file"
    /\ \E f \in Selectable :
          ui' = [ui EXCEPT !.modal = Closed,
                           !.tex_file = f,
                           !.status_label = Status("ok", "Archivo seleccionado"),
                           !.output_dir = Parent(f),
                           !.convert_btn = TRUE]
    /\ UNCHANGED <<taskVars, queue, handled, earlier>>

\* select_file(): file_dialog.exec() returned false
select_file_cancelled ==
    /\ ui.modal # <<>>
    /\ TopDialog.kind = "file"
    /\ ui' = [ui EXCEPT !.modal = Closed]
    /\ UNCHANGED <<taskVars, queue, handled, earlier>>

\* start_conversion(): the click on the convert button; the new
\* LatexConverter replaces self.converter, whose thread may not have
\* returned from run() yet
start_conversion ==
    /\ Clickable
    /\ ui.convert_btn
    /\ runs < MaxRuns
    /\ IF ui.tex_file = NoFile
          THEN /\ ui' = [ui EXCEPT !.modal = Append(@, Dialog("warning",
                                        "Por favor, seleccione un archivo TEX primero"))]
               /\ UNCHANGED <<taskVars, queue, handled, earlier>>
          ELSE /\ ui' = [ui EXCEPT !.convert_btn = FALSE,
                                   !.select_file_btn = FALSE,
                                   !.progress_bar = 0,
                                   !.status_label = Status("busy", "Iniciando conversion")]
               /\ tex_file' = ui.tex_file
               /\ output_dir' = ui.output_dir
               /\ earlier' = IF pc \in {"none", "done"} THEN earlier ELSE earlier + 1
               /\ runs' = runs + 1
               /\ pc' = "idle"
               /\ events' = <<>>
               /\ handled' = <<>>
               /\ exc' = "none"
               /\ exitCode' = 0
               /\ compiled' = FALSE
               /\ found' = "unknown"
               /\ written' = {}
               /\ raised' = "none"
               /\ calls' = NoCalls
               /\ installResult' = NotRun
               /\ start' = [files |-> files, dirs |-> dirs]
               /\ leftover' = {}
               /\ undeleted' = {}
               /\ UNCHANGED <<files, dirs, miktex, queue>>

\* the event loop delivers the oldest posted signal to its slot
Deliver(type) ==
    /\ queue # <<>>
    /\ Head(queue).type = type
    /\ handled' = Append(handled, Head(queue))
    /\ queue' = Tail(queue)
    /\ UNCHANGED <<taskVars, earlier>>

\* update_progress(value)
update_progress ==
    /\ Deliver("progress")
    /\ ui' = [ui EXCEPT !.progress_bar = Head(queue).n]

\* update_status(message)
update_status ==
    /\ Deliver("message")
    /\ ui' = [ui EXCEPT !.status_label = Status("busy", Head(queue).text)]

\* show_error(error_msg): QMessageBox.critical opens
show_error ==
    /\ Deliver("error")
    /\ ui' = [ui EXCEPT !.modal = Append(@, Dialog("critical", Head(queue).text))]

\* show_error(error_msg): the user closes the box, the slot goes on
show_error_closed ==
    /\ ui.modal # <<>>
    /\ TopDialog.kind = "critical"
    /\ ui' = [ui EXCEPT !.modal = Closed,
                        !.status_label = Status("error", TopDialog.text)]
    /\ UNCHANGED <<taskVars, queue, handled, earlier>>

\* a show_error slot has started for this run
ErrorHandled == \E i \in 1..Len(handled) : handled[i].type = "error"

\* as conversion_finished, with the buttons enabled again only for a run
\* without an error
conversion_finished_NoErrorOnly ==
    /\ Deliver("finished")
    /\ ui' = [ui EXCEPT !.convert_btn = ~ErrorHandled,
                        !.select_file_btn = ~ErrorHandled,
                        !.progress_bar = 100,
                        !.status_label = Status("ok", "Conversion completada exitosamente"),
                        !.modal = Append(@, Dialog("information",
                                      "La conversion se completo exitosamente"))]

\* as conversion_finished, announcing success only for a run without an error
conversion_finished_Conditional ==
    /\ Deliver("finished")
    /\ ui' = IF ErrorHandled
                THEN [ui EXCEPT !.convert_btn = TRUE,
                                !.select_file_btn = TRUE]
                ELSE [ui EXCEPT !.convert_btn = TRUE,
                        !.select_file_btn = TRUE,
                        !.progress_bar = 100,
                        !.status_label = Status("ok", "Conversion completada exitosamente"),
                        !.modal = Append(@, Dialog("information",
                                      "La conversion se completo exitosamente"))]

\* conversion_finished(), up to the opening of QMessageBox.information
conversion_finished ==
    /\ Deliver("finished")
    /\ ui' = [ui EXCEPT !.convert_btn = TRUE,
                        !.select_file_btn = TRUE,
                        !.progress_bar = 100,
                        !.status_label = Status("ok", "Conversion completada exitosamente"),
                        !.modal = Append(@, Dialog("information",
                                      "La conversion se completo exitosamente"))]

\* conversion_finished(): the user closes the box
conversion_finished_closed ==
    /\ ui.modal # <<>>
    /\ TopDialog.kind = "information"
    /\ ui' = [ui EXCEPT !.modal = Closed]
    /\ UNCHANGED <<taskVars, queue, handled, earlier>>

\* the thread of a replaced converter returns from run()
EarlierReturn ==
    /\ earlier > 0
    /\ earlier' = earlier - 1
    /\ UNCHANGED <<taskVars, queue, handled, ui>>

\* the slots, run by the event loop of the window or of a modal dialog
SlotNext ==
    \/ update_progress
    \/ update_status
    \/ show_error
    \/ conversion_finished

\* the steps of the background thread in an environment where every unlink
\* of cleanup succeeds, the compiler writes all of its files or none and
\* exits with status zero, and a failing installer prints one message: the
\* window looks at none of these
UiTaskNext ==
    /\ TaskNext
    /\ undeleted' = {}
    /\ written' \in {{}, CompilerOutputs(output_dir, tex_file)}
    /\ exitCode' = 0
    /\ installResult'.stderr \in {"", "disk full"}

UiNext ==
    \/ UiTaskNext
    \/ SlotNext
    \/ select_file
    \/ select_file_accepted
    \/ select_file_cancelled
    \/ start_conversion
    \/ show_error_closed
    \/ conversion_finished_closed
    \/ EarlierReturn

UiSpec == UiInit /\ [][UiNext]_vars

\* the background thread is scheduled as long as it can take a step, and the
\* event loops deliver every posted signal; the user need not do anything.
\* The toolchain is installed.
UiLiveInit == UiInit /\ miktex = TRUE

UiLiveSpec ==
    UiLiveInit /\ [][UiNext]_vars /\ WF_vars(UiTaskNext) /\ WF_vars(SlotNext)

-----------------------------------------------------------------------------
(* Observations on the event sequence of the current run *)

EventsOfType(t) == {i \in 1..Len(events) : events[i].type = t}
ErrorCount == Cardinality(EventsOfType("error"))
FinishedCount == Cardinality(EventsOfType("finished"))
Emitted(e) == \E i \in 1..Len(events) : events[i] = e
LastProgress ==
    LET ps == EventsOfType("progress")
    IN  IF ps = {} THEN -1
        ELSE events[CHOOSE i \in ps : \A j \in ps : j <= i].n
SourceMissing == tex_file \notin files
\* the run got past step 2: toolchain found, or the installer exited zero
ReachedConvert == found = "present" \/ Emitted(ProgressEv(50))
SuccessReported ==
    \/ Emitted(ProgressEv(100))
    \/ Emitted(MessageEv("Proceso completado", NoRef))
    \/ Emitted(MessageEv("PDF generado en", OutputFile(output_dir, tex_file)))

-----------------------------------------------------------------------------
(* Claims *)

\* C1: in every run the completion signal is emitted exactly once and is the
\* last event: a finished event is only ever the last element of the event
\* sequence, it is there iff the run is over, and nothing follows it.
C1_FinishedOnceAndLast ==
    /\ \A i \in 1..Len(events) :
          events[i].type = "finished" =>
              (i = Len(events) /\ pc \in {"finished_emitted", "done"})
    /\ pc = "done" => (FinishedCount = 1 /\ events[Len(events)] = FinishedEv)

\* C1 witness: a finished run whose outcome was an installer failure
C1_Witness ==
    /\ pc = "done"
    /\ \E e \in Stderrs : Emitted(ErrorEv("installer_failed", <<e>>))
    /\ events[Len(events)] = FinishedEv

\* C2: the progress values of a run are non-decreasing and lie in 0..100
C2_ProgressMonotone ==
    \A i \in EventsOfType("progress") :
        /\ events[i].n \in 0..100
        /\ \A j \in EventsOfType("progress") : i < j => events[i].n <= events[j].n

\* C2 witness: a finished run through the installer and the compiler
C2_Witness ==
    /\ pc = "done"
    /\ Emitted(ProgressEv(20)) /\ Emitted(ProgressEv(50))
    /\ Emitted(ProgressEv(70)) /\ Emitted(ProgressEv(100))

\* C3: at most one error event per run
C3_AtMostOneError == ErrorCount <= 1

\* C3 witness: a finished run whose launcher could not be started, with its
\* one error
C3_Witness ==
    /\ pc = "done"
    /\ BatFile(output_dir) \in files /\ ~compiled /\ runs = 1
    /\ Emitted(ErrorEv("Error durante la conversion a PDF", NoRef))
    /\ ErrorCount = 1

\* C4: source exists, toolchain already present, the compiler writes its PDF:
\* no error, one completion signal, last progress 100, and the PDF exists at
\* {output_dir}/{stem}.pdf when completion is signalled
C4_ValidRunSucceeds ==
    (/\ pc = "done"
     /\ found = "present"
     /\ compiled
     /\ OutputFile(output_dir, tex_file) \in written)
    => /\ ErrorCount = 0
       /\ FinishedCount = 1
       /\ LastProgress = 100
       /\ OutputFile(output_dir, tex_file) \in files

\* C4 witness: such a run, compiling in the source's own directory, where
\* cleanup has the PDF among the files matching the glob
C4_Witness ==
    /\ pc = "done"
    /\ found = "present"
    /\ compiled
    /\ output_dir = Parent(tex_file)
    /\ OutputFile(output_dir, tex_file) \in written
    /\ LastProgress = 100

\* C5 (as claimed): a run that emits an error never also emits progress 100
\* or a success status
C5_ErrorExcludesSuccess ==
    ErrorCount > 0 => ~SuccessReported

\* C6 (as claimed): source missing => exactly one error, referencing the
\* missing path, and exactly one completion signal
C6_Original ==
    (pc = "done" /\ SourceMissing)
    => /\ ErrorCount = 1
       /\ \A i \in EventsOfType("error") : events[i].ref = tex_file
       /\ FinishedCount = 1

\* C6 (amended): source missing => exactly one error and exactly one
\* completion signal; the error references the missing path whenever the run
\* got past the toolchain step (toolchain present or installer exited zero)
C6_MissingInputOneError ==
    (pc = "done" /\ SourceMissing)
    => /\ ErrorCount = 1
       /\ FinishedCount = 1
       /\ ReachedConvert =>
             \A i \in EventsOfType("error") :
                 events[i] = ErrorEv("El archivo no existe", tex_file)

\* C6 witness: a finished run on a missing source that reached the input test
C6_Witness ==
    /\ pc = "done"
    /\ SourceMissing
    /\ ReachedConvert
    /\ Emitted(ErrorEv("El archivo no existe", tex_file))

\* C7 (as claimed): source missing => no progress value above 10 is emitted
C7_NoProgressBeyondCheck ==
    SourceMissing =>
        \A i \in EventsOfType("progress") : events[i].n <= 10

\* the extension of the source file, lower-cased
SourceExt == Lower(Suffix(Name(tex_file)))

\* C8 (as claimed): after any run the output directory holds no file
\* {stem}.{ext} with ext outside {source extension, .pdf}
C8_NoAuxiliaryLeft ==
    pc = "done" =>
        \A f \in files :
            (Parent(f) = output_dir /\ GlobMatch(Stem(Name(tex_file)), Name(f)))
            => Lower(Suffix(Name(f))) \in {SourceExt, PdfExt}

\* C9 (as claimed): after any run no launcher script is left in the output
\* directory
C9_NoLauncherLeft ==
    pc = "done" => BatFile(output_dir) \notin files

\* the events of a run that invoked the compiler, as a function of the branch
\* taken at the toolchain check and of the existence of the output file
ExpectedEvents(installed, pdfExists) ==
    <<MessageEv("Verificando instalacion de MiKTeX", NoRef), ProgressEv(10)>>
    \o (IF installed
           THEN <<MessageEv("Instalando MiKTeX", NoRef), ProgressEv(20), ProgressEv(50)>>
           ELSE <<>>)
    \o <<MessageEv("Convirtiendo a PDF", <<Name(tex_file)>>), ProgressEv(60),
         MessageEv("Ejecutando pdflatex", <<Name(tex_file)>>), ProgressEv(70)>>
    \o (IF pdfExists
           THEN <<MessageEv("PDF generado en", OutputFile(output_dir, tex_file)),
                  ProgressEv(100)>>
           ELSE <<ErrorEv("No se pudo generar el archivo PDF", NoRef)>>)
    \o <<ProgressEv(100), MessageEv("Proceso completado", NoRef), FinishedEv>>

\* C10: once the compiler has run, the events depend on the file system
\* only: whatever the exit status, the run's events are those determined by
\* the existence of the output file after cleanup, and the error "PDF not
\* produced" is emitted iff that file does not exist
C10_ExistenceDecides ==
    (pc = "done" /\ compiled)
    => /\ events = ExpectedEvents(found = "absent",
                                  OutputFile(output_dir, tex_file) \in files)
       /\ Emitted(ErrorEv("No se pudo generar el archivo PDF", NoRef))
             <=> OutputFile(output_dir, tex_file) \notin files

\* C10 witness: a finished run whose compiler exited non-zero and whose PDF
\* exists
C10_Witness ==
    /\ pc = "done" /\ compiled
    /\ exitCode = 1
    /\ OutputFile(output_dir, tex_file) \in files
    /\ ~Emitted(ErrorEv("No se pudo generar el archivo PDF", NoRef))

\* C11: the compiler was invoked and no PDF exists at the expected path
\* afterwards: the run emits the error "PDF not produced", and the completion
\* signal after it
C11_NoPdfReported ==
    (/\ pc = "done"
     /\ calls.compiler = 1 /\ compiled
     /\ OutputFile(output_dir, tex_file) \notin files)
    => \E i \in 1..Len(events) :
          /\ events[i] = ErrorEv("No se pudo generar el archivo PDF", NoRef)
          /\ i < Len(events)
          /\ events[Len(events)] = FinishedEv

\* C11 witness: a finished run whose compiler wrote only auxiliary files
C11_Witness ==
    /\ pc = "done"
    /\ compiled
    /\ written # {} /\ OutputFile(output_dir, tex_file) \notin files
    /\ Emitted(ErrorEv("No se pudo generar el archivo PDF", NoRef))

\* C12 (as claimed): of two runs in succession on the same valid source and
\* output directory, each leaves the PDF existing and emits no error, and
\* the intermediate files the first run left are gone when the second run
\* has declared success (unless the second run's compiler wrote them anew)
C12_Idempotent ==
    (/\ pc = "done"
     /\ compiled
     /\ OutputFile(output_dir, tex_file) \in written)
    => /\ ErrorCount = 0
       /\ OutputFile(output_dir, tex_file) \in files
       /\ \A f \in leftover : f \in files => f \in written

\* the error event a raised condition is converted to
ExpectedError(r) ==
    IF r \in InstallOutcomes
       THEN ErrorEv(r, ExcArg(r))
       ELSE ErrorEv("Error durante la conversion a PDF", NoRef)

\* C13: a condition raised during the sequence is caught inside the task:
\* control goes to a handler and on to the completion signal, exactly one
\* error event reports the condition, and no exception is pending when run()
\* is over
C13_RaisedIsCaught ==
    /\ raised # "none" => pc \in {"except", "after_convert", "finally", "finished_emitted", "done"}
    /\ (raised # "none" /\ pc \in {"finally", "finished_emitted", "done"})
          => /\ ErrorCount = 1
             /\ Emitted(ExpectedError(raised))
             /\ exc = "none"
    /\ pc = "done" => (exc = "none" /\ events[Len(events)] = FinishedEv)

\* C13 witness: a finished run whose output directory could not be created
C13_Witness ==
    /\ pc = "done"
    /\ raised = "mkdir_failed"
    /\ output_dir \notin dirs
    /\ ErrorCount = 1

\* C14: the foreground thread starts the slots in the order in which the
\* task emitted the signals: what it has handled, followed by what is still
\* posted, is the emitted sequence; when the completion slot has started,
\* every earlier signal of the run has been handled
C14_HandledInEmissionOrder ==
    /\ handled \o queue = events
    /\ (\E i \in 1..Len(handled) : handled[i] = FinishedEv)
          => (queue = <<>> /\ handled = events)

\* C14 witness: the completion slot has started in a run that reported an
\* error
C14_Witness ==
    /\ Len(handled) > 2
    /\ handled[Len(handled)] = FinishedEv
    /\ \E i \in 1..Len(handled) : handled[i].type = "error"

\* a file sharing the source's base name with the extension .tex or .pdf
KeptFile(f) ==
    /\ GlobMatch(Stem(Name(tex_file)), Name(f))
    /\ Lower(Suffix(Name(f))) \in {TexExt, PdfExt}

\* C15: no step of a run, cleanup included, removes a file sharing the
\* source's base name whose extension is .tex or .pdf
C15_CleanupKeepsTexAndPdf ==
    [][\A f \in files : KeptFile(f) => f \in files']_vars

\* C15 witness: cleanup has removed an auxiliary file next to the source and
\* to a PDF that was there before the run
C15_Witness ==
    /\ pc = "check_pdf"
    /\ tex_file \in start.files /\ tex_file \in files
    /\ <<SrcDir, Stem(TexName) \o PdfExt>> \in start.files
    /\ <<SrcDir, Stem(TexName) \o PdfExt>> \in files
    /\ <<SrcDir, AuxName>> \in start.files
    /\ <<SrcDir, AuxName>> \notin files

\* C16: an unlink that fails during cleanup raises nothing and leaves the
\* outcome as it would be had the file been deleted: no exception error is
\* emitted, and the run's events are those of a run whose file system lacks
\* the undeleted files
C16_UnlinkFailureIgnored ==
    (undeleted # {} /\ pc \in {"check_pdf", "after_convert", "finally", "finished_emitted", "done"})
    => /\ raised = "none"
       /\ ~Emitted(ErrorEv("Error durante la conversion a PDF", NoRef))
       /\ pc = "done" =>
             events = ExpectedEvents(found = "absent",
                         OutputFile(output_dir, tex_file) \in files \ undeleted)

\* C16 witness: a finished, successful run in which the launcher and an
\* auxiliary file could not be deleted
C16_Witness ==
    /\ pc = "done"
    /\ BatFile(output_dir) \in undeleted
    /\ \E f \in undeleted : f # BatFile(output_dir)
    /\ Emitted(MessageEv("PDF generado en", OutputFile(output_dir, tex_file)))

\* C17: toolchain absent and the installer exits non-zero: the error event
\* carries the installer's stderr, no progress value from 50 on is emitted,
\* the launcher is not written, the compiler is not invoked, the file system
\* is as the run found it, and the completion signal ends the run
C17_InstallerFailureAborts ==
    installResult.rc > 0
    => /\ found = "absent"
       /\ pc \in {"except", "finally", "finished_emitted", "done"}
       /\ \A i \in EventsOfType("progress") : events[i].n < 50
       /\ calls.launcher = 0 /\ calls.compiler = 0
       /\ files = start.files /\ dirs = start.dirs
       /\ pc \in {"finally", "finished_emitted", "done"} =>
             (/\ ErrorCount = 1
              /\ Emitted(ErrorEv("installer_failed", <<installResult.stderr>>)))
       /\ pc = "done" => events[Len(events)] = FinishedEv

\* C17 witness: a finished run whose installer exited non-zero with
\* "disk full" on stderr
C17_Witness ==
    /\ pc = "done"
    /\ installResult = [rc |-> 1, stderr |-> "disk full"]
    /\ Emitted(ErrorEv("installer_failed", <<"disk full">>))

\* what C18 says apart from when the installer is invoked: at most one
\* installer and one compiler invocation per run, the installer after the
\* "installing" status and progress 20, progress 50 only after a zero exit,
\* the compiler only after the toolchain was found or installed
C18_Sequencing ==
    /\ calls.installer <= 1 /\ calls.compiler <= 1
    /\ calls.installer > 0 =>
          (/\ Emitted(MessageEv("Instalando MiKTeX", NoRef))
           /\ Emitted(ProgressEv(20)))
    /\ Emitted(ProgressEv(50)) => installResult.rc = 0
    /\ calls.compiler > 0 => (found = "present" \/ installResult.rc = 0)

\* the run is past the call of install_miktex(), if there was one
PastInstall == pc \notin {"idle", "check_miktex", "install_miktex"}

\* C18 (as claimed): the installer is invoked iff the toolchain check finds
\* the compiler absent
C18_Original ==
    /\ C18_Sequencing
    /\ PastInstall => (calls.installer = 1 <=> found = "absent")

\* C18 (amended): the installer is invoked iff the toolchain check finds the
\* compiler absent and the bundled installer file exists
C18_InstallerAndCompilerOnce ==
    /\ C18_Sequencing
    /\ PastInstall =>
          (calls.installer = 1 <=>
              (found = "absent" /\ raised # "installer_not_found"))

\* C18 witness: a finished run that installed the toolchain and then compiled
C18_Witness ==
    /\ pc = "done"
    /\ calls.installer = 1 /\ installResult.rc = 0
    /\ calls.compiler = 1

\* C19: a missing input ends the compile step at once: with the source
\* missing the step never gets to mkdir, the launcher or the compiler, the
\* not-found error is emitted, and files and directories are as the run
\* found them
C19_MissingInputNoCompile ==
    SourceMissing
    => /\ pc \notin {"mkdir", "write_bat", "run_bat", "run_bat_hung",
                     "clean", "check_pdf"}
       /\ pc \in {"after_convert", "finally", "finished_emitted", "done"} /\ ReachedConvert =>
             (/\ Emitted(ErrorEv("El archivo no existe", tex_file))
              /\ calls.launcher = 0 /\ calls.compiler = 0
              /\ files = start.files /\ dirs = start.dirs)

\* C19 witness: a finished run on a missing input whose output directory
\* does not exist
C19_Witness ==
    /\ pc = "done"
    /\ SourceMissing
    /\ output_dir \notin dirs
    /\ Emitted(ErrorEv("El archivo no existe", tex_file))

\* the positions of a task blocked in subprocess.run for ever
Hung == {"install_hung", "run_bat_hung"}

\* C20: a run whose subprocesses return emits its completion signal; a run
\* blocked in a subprocess that never returns has emitted no completion
\* signal and emits nothing further
C20_CompletionUnlessHung ==
    /\ [](pc \in Hung => FinishedCount = 0)
    /\ [][(pc \in Hung) => (pc' = pc /\ events' = events)]_vars
    /\ (pc = "idle") ~> ((pc = "done" /\ FinishedCount = 1) \/ pc \in Hung)

\* C20 witness: the task blocked in the launcher subprocess, with events
\* emitted and no completion signal
C20_Witness ==
    /\ pc = "run_bat_hung"
    /\ Emitted(ProgressEv(70))
    /\ FinishedCount = 0

\* C25: a PDF was at the expected output path before the run and the
\* compiler wrote nothing: the finished run has emitted no error, the
\* message "PDF generated" for that path, and progress 100
C25_StalePdfIsSuccess ==
    (/\ pc = "done" /\ compiled
     /\ written = {}
     /\ OutputFile(output_dir, tex_file) \in start.files)
    => /\ ErrorCount = 0
       /\ Emitted(MessageEv("PDF generado en", OutputFile(output_dir, tex_file)))
       /\ LastProgress = 100
       /\ events = ExpectedEvents(found = "absent", TRUE)

\* C25 witness: a finished run over a stale PDF whose compiler failed without
\* writing anything
C25_Witness ==
    /\ pc = "done" /\ compiled
    /\ written = {} /\ exitCode = 1
    /\ OutputFile(output_dir, tex_file) \in start.files
    /\ Emitted(MessageEv("PDF generado en", OutputFile(output_dir, tex_file)))

\* a file cleanup may delete: in the source's directory, either named after
\* the source's base name with an extension other than .tex and .pdf, or the
\* launcher
Deletable(f) ==
    /\ Parent(f) = Parent(tex_file)
    /\ \/ /\ GlobMatch(Stem(Name(tex_file)), Name(f))
          /\ Lower(Suffix(Name(f))) \notin {TexExt, PdfExt}
       \/ Name(f) = BatName

-----------------------------------------------------------------------------
(* The window *)

\* the step in which start_conversion creates and starts a converter
StartStep == runs' = runs + 1

\* the step in which the slot connected to the signal of the given type starts
SlotStep(type) ==
    /\ Len(handled') = Len(handled) + 1
    /\ handled'[Len(handled')].type = type

\* run() has emitted the completion signal: the run terminates
Terminated == pc \in {"finished_emitted", "done"}

\* a converter has been started and its completion has not been handled
RunPending == pc # "none" /\ (handled = <<>> \/ handled[Len(handled)] # FinishedEv)

BothEnabled == ui.convert_btn /\ ui.select_file_btn
BothDisabled == ~ui.convert_btn /\ ~ui.select_file_btn

\* C21: start_conversion leaves both buttons disabled, they stay disabled
\* until the run's completion is handled, conversion_finished leaves both
\* enabled whether or not the run reported an error, and once a run has
\* emitted its completion signal both buttons are eventually enabled
C21_ControlsReenabled ==
    /\ [][StartStep => BothDisabled']_vars
    /\ [](RunPending => BothDisabled)
    /\ [][SlotStep("finished") => BothEnabled']_vars
    /\ (Terminated ~> BothEnabled)

\* C21 witness: the completion of a run whose error was shown has been
\* handled, and both buttons are enabled
C21_Witness ==
    /\ pc = "done"
    /\ ErrorHandled
    /\ handled[Len(handled)] = FinishedEv
    /\ BothEnabled

\* the converter threads that have not returned from run()
Active == earlier + (IF pc \in {"none", "done"} THEN 0 ELSE 1)

\* C22: at most one converter thread is running at any time
C22_AtMostOneActive == Active <= 1

\* C23: a selected file's directory is the output directory, the convert
\* button is enabled only with a file selected, and a rejected file dialog
\* leaves the selection, the output directory and both buttons as they were
C23_SelectionInvariant ==
    /\ [](ui.tex_file # NoFile => ui.output_dir = Parent(ui.tex_file))
    /\ [](ui.convert_btn => ui.tex_file # NoFile)
    /\ [][select_file_cancelled
          => /\ ui'.tex_file = ui.tex_file
             /\ ui'.output_dir = ui.output_dir
             /\ ui'.convert_btn = ui.convert_btn
             /\ ui'.select_file_btn = ui.select_file_btn]_vars

\* C23 witness: after a conversion of a file of one directory a file of the
\* other directory was selected, and the file dialog is open once more
C23_Witness ==
    /\ runs >= 1
    /\ ui.tex_file # tex_file
    /\ ui.tex_file # NoFile
    /\ ui.output_dir = Parent(ui.tex_file)
    /\ ui.convert_btn
    /\ ui.modal = <<Dialog("file", "")>>

\* C24: the step in which conversion_finished starts sets the progress bar
\* to 100 and the status label to the success text and opens the success
\* box, whatever was handled before
C24_SuccessAnnounced ==
    [][SlotStep("finished")
       => /\ ui'.progress_bar = 100
          /\ ui'.status_label = Status("ok", "Conversion completada exitosamente")
          /\ ui'.modal = Append(ui.modal,
                 Dialog("information", "La conversion se completo exitosamente"))]_vars

\* C24 witness: the success box is open on top of the error box of the same
\* run
C24_Witness ==
    /\ ErrorHandled
    /\ Len(ui.modal) >= 2
    /\ ui.modal[Len(ui.modal)].kind = "information"
    /\ ui.modal[Len(ui.modal) - 1].kind = "critical"
    /\ ui.progress_bar = 100
    /\ ui.status_label.icon = "ok"

====
